---------------------------- MODULE Spec2Model ----------------------------
(***************************************************************************)
(* A model of src/index.mjs: the Lambda handler that routes one HTTP event *)
(* to one DynamoDB command and maps the reply to a response.               *)
(*                                                                         *)
(* Strings whose characters matter (paths, ids, field values) are tuples   *)
(* of one-character strings, so that the path regular expression is        *)
(* evaluated character by character.  Object keys and enumerated labels    *)
(* are TLA+ strings.  An optional value (res.Item, res.Attributes) is a    *)
(* set with at most one element.                                           *)
(***************************************************************************)
EXTENDS Integers, Sequences, FiniteSets, TLC

VARIABLES
    table,      \* the DynamoDB table: a set of items, at most one per id
    uuids,      \* how many identifiers randomUUID() has handed out
    requests,   \* how many invocations of the handler have completed
    event,      \* the event of the last invocation
    now,        \* the clock reading of the last invocation
    outcome,    \* how the last invocation ended: a response, or a throw
    calls,      \* the store commands the last invocation sent, with their replies
    before,     \* the table as the last invocation found it
    removed,    \* ids deleted with a 200 and not created since
    gone,       \* removed, as the last invocation found it
    procs       \* the concurrent invocations (concurrent specification)

vars == <<table, uuids, requests, event, now, outcome, calls, before, removed, gone, procs>>

---------------------------------------------------------------------------
(* Bounds of the model.                                                    *)

\* invocations of the handler in one behaviour of the sequential specification
MaxRequests == 3

\* concurrent invocations in one behaviour of the concurrent specification
MaxProcs == 3

---------------------------------------------------------------------------
(* Text.                                                                   *)

Upper == {"A","B","C","D","E","F","G","H","I","J","K","L","M",
          "N","O","P","Q","R","S","T","U","V","W","X","Y","Z"}

Lower == {"a","b","c","d","e","f","g","h","i","j","k","l","m",
          "n","o","p","q","r","s","t","u","v","w","x","y","z"}

Digit == {"0","1","2","3","4","5","6","7","8","9"}

\* the character class [A-Za-z0-9_.\-] of the id pattern
IdChars == Upper \cup Lower \cup Digit \cup {"_", ".", "-"}

StartsWith(s, p) == Len(s) >= Len(p) /\ SubSeq(s, 1, Len(p)) = p

HealthPath == <<"/","h","e","a","l","t","h">>

ItemsPath == <<"/","i","t","e","m","s">>

ItemsPrefix == ItemsPath \o <<"/">>

RootPath == <<"/">>

\* JavaScript's null, "" and undefined where the code only tests truthiness
Falsy == <<>>

\* /^\/items\/([A-Za-z0-9_.\-]+)$/.exec(path || ""): the captured id, or null
getIdFromPath_Unanchored(path) ==
    LET rest == SubSeq(path, Len(ItemsPrefix) + 1, Len(path))
        run  == {n \in 1..Len(rest) : \A i \in 1..n : rest[i] \in IdChars}
    IN  IF StartsWith(path, ItemsPrefix) /\ run # {}
        THEN SubSeq(rest, 1, CHOOSE n \in run : \A m \in run : m <= n)
        ELSE Falsy

getIdFromPath(path) ==
    LET rest == SubSeq(path, Len(ItemsPrefix) + 1, Len(path))
    IN  IF /\ StartsWith(path, ItemsPrefix)
           /\ Len(rest) >= 1
           /\ \A i \in 1..Len(rest) : rest[i] \in IdChars
        THEN rest
        ELSE Falsy

---------------------------------------------------------------------------
(* JSON.                                                                   *)

\* an option: the absent value and a present one
None == {}

Some(x) == {x}

\* a document with no properties
EmptyObject == [k \in {} |-> <<>>]

JNull == [t |-> "null"]

JNumber == [t |-> "number"]

JString(chars) == [t |-> "string", chars |-> chars]

JArray(elems) == [t |-> "array", elems |-> elems]

JObject(props) == [t |-> "object", props |-> props]

\* the property name of position i of a string or an array
IndexKey(i) == <<"0", "1", "2">>[i]

\* the own enumerable properties of a parsed JSON value: what {...body}
\* copies and what Object.keys(body) lists
OwnProps(v) ==
    CASE v.t = "object" -> v.props
      [] v.t = "string" -> [k \in {IndexKey(i) : i \in 1..Len(v.chars)} |->
                              LET i == CHOOSE j \in 1..Len(v.chars) : IndexKey(j) = k
                              IN  <<v.chars[i]>>]
      [] v.t = "array"  -> [k \in {IndexKey(i) : i \in 1..Len(v.elems)} |->
                              LET i == CHOOSE j \in 1..Len(v.elems) : IndexKey(j) = k
                              IN  v.elems[i]]
      [] OTHER          -> EmptyObject

\* b overrides a, key by key: {...a, ...b}
Merge(a, b) ==
    [k \in DOMAIN a \cup DOMAIN b |-> IF k \in DOMAIN b THEN b[k] ELSE a[k]]

\* obj after `delete obj[k]` for every k of ks
Without(obj, ks) == [k \in DOMAIN obj \ ks |-> obj[k]]

\* A text is the empty string, a text that is not JSON, or the JSON text of
\* a value.
EmptyText == [syntax |-> "empty"]

Malformed == [syntax |-> "malformed"]

JsonText(v) == [syntax |-> "json", value |-> v]

\* JSON.stringify(data)
JsonStringify(data) == JsonText(data)

\* JSON.parse(text): the value, or a SyntaxError
JsonParse(text) ==
    IF text.syntax = "json"
    THEN [ok |-> TRUE, value |-> text.value]
    ELSE [ok |-> FALSE, value |-> JNull]

---------------------------------------------------------------------------
(* The event.                                                              *)

\* What travels in event.body: a text as written, or its base64 encoding.
Wire(enc, text) == [enc |-> enc, text |-> text]

\* Whether the JSON text of v holds fewer than two characters of the base64
\* alphabet, from which the lenient decoder makes no byte.
FewBase64Symbols(v) ==
    CASE v.t = "number" -> TRUE
      [] v.t = "string" -> Len(v.chars) <= 1
      [] v.t = "array"  -> Len(v.elems) <= 1 /\ \A i \in 1..Len(v.elems) : Len(v.elems[i]) <= 1
      [] v.t = "object" -> DOMAIN v.props = {}
      [] OTHER          -> FALSE

\* Buffer.from(raw, "base64").toString("utf8"): the encoded text when raw is
\* base64; otherwise the decoder skips what is not base64 and the rest
\* decodes to nothing or to bytes that are no JSON text.
Base64Decode(wire) ==
    IF wire.enc = "base64" THEN wire.text
    ELSE IF wire.text.syntax = "empty" THEN EmptyText
    ELSE IF wire.text.syntax = "json" /\ FewBase64Symbols(wire.text.value) THEN EmptyText
    ELSE Malformed

\* event.body || "", read as it stands: the base64 of a non-empty text is a
\* non-empty string that is not JSON
Raw(wire) ==
    IF wire.enc = "plain" THEN wire.text
    ELSE IF wire.text.syntax = "empty" THEN EmptyText
    ELSE Malformed

\* lines 47-50 and 112-115: let bodyText = event.body || ""; decode if flagged
BodyText(ev) ==
    IF ev.isBase64Encoded THEN Base64Decode(ev.body) ELSE Raw(ev.body)

\* the body parsed with a catch that falls back to {}
ParseBody_Lenient(ev) ==
    LET bodyText == BodyText(ev)
    IN  IF bodyText.syntax = "json"
        THEN JsonParse(bodyText)
        ELSE [ok |-> TRUE, value |-> JObject(EmptyObject)]

\* lines 52-57 and 116-121: the parsed body ({} for an empty text), or the
\* 400 of the catch
ParseBody(ev) ==
    LET bodyText == BodyText(ev)
    IN  IF bodyText.syntax = "empty"
        THEN [ok |-> TRUE, value |-> JObject(EmptyObject)]
        ELSE JsonParse(bodyText)

\* event?.requestContext?.http?.method || "GET"
MethodOf(ev) == IF ev.method = "" THEN "GET" ELSE ev.method

\* event?.rawPath || "/"
PathOf(ev) == IF ev.rawPath = Falsy THEN RootPath ELSE ev.rawPath

---------------------------------------------------------------------------
(* The response.                                                           *)

TABLE == "TABLE_NAME"

CorsHeaders ==
    [ContentType  |-> "application/json",
     AllowOrigin  |-> "*",
     AllowMethods |-> "GET,POST,PUT,DELETE,OPTIONS",
     AllowHeaders |-> "Content-Type,Authorization"]

json(statusCode, data) ==
    [statusCode |-> statusCode, headers |-> CorsHeaders, body |-> JsonStringify(data)]

BadJson == json(400, [error |-> "BadRequest", message |-> "Body must be valid JSON"])

BadId == json(400, [error |-> "BadRequest", message |-> "Missing or invalid id in path"])

NoFields == json(400, [error |-> "BadRequest", message |-> "No updatable fields provided"])

NotFound == json(404, [error |-> "NotFound", message |-> "Item not found"])

\* json(500, { error: err.name || "Error", message: err.message || String(err) })
StoreError(err) == json(500, [error |-> err.name, message |-> err.message])

---------------------------------------------------------------------------
(* The store: what ddb.send does with each command.                        *)

ConditionFailed == [name |-> "ConditionalCheckFailedException",
                    message |-> "The conditional request failed"]

Unavailable == [name |-> "InternalServerError", message |-> "Internal server error"]

Ok(item, items) == [ok |-> TRUE, err |-> Unavailable, Item |-> item, Items |-> items]

Failed(err) == [ok |-> FALSE, err |-> err, Item |-> None, Items |-> {}]

\* the items of tbl under key id: none or one
Lookup(tbl, id) == {i \in tbl : i.id = id}

\* PutCommand: an unconditional write under the item's own id
PutItem(tbl, cmd) ==
    [reply |-> Ok(None, {}),
     table |-> (tbl \ Lookup(tbl, cmd.Item.id)) \cup {cmd.Item}]

\* ScanCommand with Limit: up to Limit items, in no promised order
ScanItems(tbl, cmd) ==
    {[reply |-> Ok(None, page), table |-> tbl] :
        page \in {s \in SUBSET tbl :
                    Cardinality(s) = IF Cardinality(tbl) < cmd.Limit
                                     THEN Cardinality(tbl) ELSE cmd.Limit}}

\* GetCommand
GetItem(tbl, cmd) == [reply |-> Ok(Lookup(tbl, cmd.Key), {}), table |-> tbl]

\* UpdateCommand, SET per assignment, ReturnValues ALL_NEW, with no condition:
\* an item under a missing key is created from the key and the assignments
UpdateItem_Upsert(tbl, cmd) ==
    LET old == IF Lookup(tbl, cmd.Key) = {}
               THEN [id |-> cmd.Key]
               ELSE CHOOSE i \in Lookup(tbl, cmd.Key) : TRUE
        new == Merge(old, cmd.Set)
    IN  [reply |-> Ok(Some(new), {}),
         table |-> (tbl \ Lookup(tbl, cmd.Key)) \cup {new}]

\* UpdateCommand, SET per assignment, ConditionExpression
\* attribute_exists(id), ReturnValues ALL_NEW
UpdateItem(tbl, cmd) ==
    IF Lookup(tbl, cmd.Key) = {}
    THEN [reply |-> Failed(ConditionFailed), table |-> tbl]
    ELSE LET old == CHOOSE i \in Lookup(tbl, cmd.Key) : TRUE
             new == Merge(old, cmd.Set)
         IN  [reply |-> Ok(Some(new), {}),
              table |-> (tbl \ {old}) \cup {new}]

\* DeleteCommand with no condition: deleting a missing key succeeds
DeleteItem_Idempotent(tbl, cmd) ==
    [reply |-> Ok(Lookup(tbl, cmd.Key), {}),
     table |-> tbl \ Lookup(tbl, cmd.Key)]

\* DeleteCommand, ConditionExpression attribute_exists(id), ReturnValues
\* ALL_OLD
DeleteItem(tbl, cmd) ==
    IF Lookup(tbl, cmd.Key) = {}
    THEN [reply |-> Failed(ConditionFailed), table |-> tbl]
    ELSE [reply |-> Ok(Lookup(tbl, cmd.Key), {}),
          table |-> tbl \ Lookup(tbl, cmd.Key)]

\* await ddb.send(cmd): every way the call can end.  Any call can fail in
\* the store for a reason of the store's own, and then changes nothing.
Send(tbl, cmd) ==
    {[reply |-> Failed(Unavailable), table |-> tbl]} \cup
    CASE cmd.op = "Put"    -> {PutItem(tbl, cmd)}
      [] cmd.op = "Scan"   -> ScanItems(tbl, cmd)
      [] cmd.op = "Get"    -> {GetItem(tbl, cmd)}
      [] cmd.op = "Update" -> {UpdateItem(tbl, cmd)}
      [] cmd.op = "Delete" -> {DeleteItem(tbl, cmd)}

---------------------------------------------------------------------------
(* The handler, up to its store call, and from the reply on.               *)

\* Limit: 20 of the scan
ScanLimit == 20

ProtectedKeys == {"id", "createdAt"}

Respond(route, response) == [route |-> route, kind |-> "respond", response |-> response]

SendCommand(route, command) == [route |-> route, kind |-> "send", command |-> command]

\* an exception no try block of the handler encloses
Throw(route, error) == [route |-> route, kind |-> "throw", error |-> error]

\* the if-chain of the handler without its OPTIONS test
Route_NoPreflight(method, path) ==
    IF path = HealthPath THEN "health"
    ELSE IF method = "POST" /\ path = ItemsPath THEN "create"
    ELSE IF method = "GET" /\ path = ItemsPath THEN "list"
    ELSE IF method = "GET" /\ StartsWith(path, ItemsPrefix) THEN "readOne"
    ELSE IF method = "PUT" /\ StartsWith(path, ItemsPrefix) THEN "update"
    ELSE IF method = "DELETE" /\ StartsWith(path, ItemsPrefix) THEN "delete"
    ELSE "fallback"

\* the if-chain of the handler: the first test that holds names the route
Route(method, path) ==
    IF path = HealthPath THEN "health"
    ELSE IF method = "OPTIONS" THEN "options"
    ELSE IF method = "POST" /\ path = ItemsPath THEN "create"
    ELSE IF method = "GET" /\ path = ItemsPath THEN "list"
    ELSE IF method = "GET" /\ StartsWith(path, ItemsPrefix) THEN "readOne"
    ELSE IF method = "PUT" /\ StartsWith(path, ItemsPrefix) THEN "update"
    ELSE IF method = "DELETE" /\ StartsWith(path, ItemsPrefix) THEN "delete"
    ELSE "fallback"

\* lines 38-40
HealthRoute(t) == Respond("health", json(200, [ok |-> TRUE, table |-> TABLE, time |-> t]))

\* line 42
OptionsRoute == Respond("options", json(204, EmptyObject))

\* lines 59-63: { id: randomUUID(), createdAt: new Date().toISOString(), ...body }
NewItem(fresh, t, body) == Merge([id |-> fresh, createdAt |-> t], OwnProps(body))

\* lines 45-66, to the send
CreateRoute(ev, fresh, t) ==
    LET parsed == ParseBody(ev)
    IN  IF ~parsed.ok THEN Respond("create", BadJson)
        ELSE SendCommand("create", [op |-> "Put", Item |-> NewItem(fresh, t, parsed.value)])

\* lines 75-78, to the send
ListRoute == SendCommand("list", [op |-> "Scan", Limit |-> ScanLimit])

\* lines 88-97, to the send
ReadOneRoute(path) ==
    LET id == getIdFromPath(path)
    IN  IF id = Falsy THEN Respond("readOne", BadId)
        ELSE SendCommand("readOne", [op |-> "Get", Key |-> id])

\* lines 123-143 with the protected keys left in the body
Assignments_KeepProtected(body) == OwnProps(body)

\* lines 123-143: the body's own keys less id and createdAt, each with its
\* value; the placeholders #k<i> and :v<i> are resolved
Assignments(body) == Without(OwnProps(body), ProtectedKeys)

\* lines 107-154, to the send
UpdateRoute(ev, path) ==
    LET id     == getIdFromPath(path)
        parsed == ParseBody(ev)
    IN  IF id = Falsy THEN Respond("update", BadId)
        ELSE IF ~parsed.ok THEN Respond("update", BadJson)
        \* delete body.id, with body null
        ELSE IF parsed.value.t = "null" THEN Throw("update", "TypeError")
        ELSE IF DOMAIN Assignments(parsed.value) = {} THEN Respond("update", NoFields)
        ELSE SendCommand("update",
                 [op |-> "Update", Key |-> id, Set |-> Assignments(parsed.value)])

\* lines 166-176, to the send
DeleteRoute(path) ==
    LET id == getIdFromPath(path)
    IN  IF id = Falsy THEN Respond("delete", BadId)
        ELSE SendCommand("delete", [op |-> "Delete", Key |-> id])

\* line 188
FallbackRoute(method, path) ==
    Respond("fallback",
        json(404, [error |-> "NotFound", message |-> <<method, path, "not handled">>]))

\* The handler from its entry to its one await, or to its return or throw
\* if it reaches none.  fresh is what randomUUID() returns and t what
\* new Date().toISOString() returns.
Prepare(ev, fresh, t) ==
    LET method == MethodOf(ev)
        path   == PathOf(ev)
        route  == Route(method, path)
    IN  CASE route = "health"   -> HealthRoute(t)
          [] route = "options"  -> OptionsRoute
          [] route = "create"   -> CreateRoute(ev, fresh, t)
          [] route = "list"     -> ListRoute
          [] route = "readOne"  -> ReadOneRoute(path)
          [] route = "update"   -> UpdateRoute(ev, path)
          [] route = "delete"   -> DeleteRoute(path)
          [] route = "fallback" -> FallbackRoute(method, path)

\* the one item of a present option
The(option) == CHOOSE i \in option : TRUE

\* { key: option }, as JSON.stringify writes it: no key for an undefined value
Optional(key, option) ==
    IF option = None THEN EmptyObject ELSE [k \in {key} |-> The(option)]

\* lines 67-71: the return of the try, or of the catch
ConcludeCreate(cmd, reply) ==
    IF reply.ok THEN json(201, [ok |-> TRUE, item |-> cmd.Item])
    ELSE StoreError(reply.err)

\* lines 80-84
ConcludeList(cmd, reply) ==
    IF reply.ok
    THEN json(200, [ok |-> TRUE, count |-> Cardinality(reply.Items), items |-> reply.Items])
    ELSE StoreError(reply.err)

\* lines 98-103
ConcludeReadOne(cmd, reply) ==
    IF ~reply.ok THEN StoreError(reply.err)
    ELSE IF reply.Item = None THEN NotFound
    ELSE json(200, [ok |-> TRUE, item |-> The(reply.Item)])

\* lines 155-162
ConcludeUpdate(cmd, reply) ==
    IF reply.ok THEN json(200, Merge([ok |-> TRUE], Optional("item", reply.Item)))
    ELSE IF reply.err.name = "ConditionalCheckFailedException" THEN NotFound
    ELSE StoreError(reply.err)

\* lines 177-184 with a catch that does not tell the failed condition apart
ConcludeDelete_Unmapped(cmd, reply) ==
    IF reply.ok THEN json(200, Merge([ok |-> TRUE], Optional("deleted", reply.Item)))
    ELSE StoreError(reply.err)

\* lines 177-184
ConcludeDelete(cmd, reply) ==
    IF reply.ok THEN json(200, Merge([ok |-> TRUE], Optional("deleted", reply.Item)))
    ELSE IF reply.err.name = "ConditionalCheckFailedException" THEN NotFound
    ELSE StoreError(reply.err)

\* The handler from the reply of its await to its return.
Conclude(cmd, reply) ==
    CASE cmd.op = "Put"    -> ConcludeCreate(cmd, reply)
      [] cmd.op = "Scan"   -> ConcludeList(cmd, reply)
      [] cmd.op = "Get"    -> ConcludeReadOne(cmd, reply)
      [] cmd.op = "Update" -> ConcludeUpdate(cmd, reply)
      [] cmd.op = "Delete" -> ConcludeDelete(cmd, reply)

Returned(response) == [kind |-> "returned", response |-> response]

Threw(error) == [kind |-> "threw", error |-> error]

\* Every way one invocation can run against tbl: how it ends, the table it
\* leaves, the commands it sent, each with its reply, and how many times it
\* called randomUUID().
Handler(ev, tbl, fresh, t) ==
    LET p == Prepare(ev, fresh, t)
    IN  CASE p.kind = "respond" ->
                {[route |-> p.route, outcome |-> Returned(p.response),
                  table |-> tbl, calls |-> <<>>, drawn |-> 0]}
          [] p.kind = "throw" ->
                {[route |-> p.route, outcome |-> Threw(p.error),
                  table |-> tbl, calls |-> <<>>, drawn |-> 0]}
          [] p.kind = "send" ->
                {[route |-> p.route, outcome |-> Returned(Conclude(p.command, r.reply)),
                  table |-> r.table,
                  calls |-> <<[command |-> p.command, reply |-> r.reply]>>,
                  drawn |-> IF p.route = "create" THEN 1 ELSE 0] :
                    r \in Send(tbl, p.command)}

---------------------------------------------------------------------------
(* The requests of the model.                                              *)

\* the n-th identifier randomUUID() returns: never one it returned before
Uuid(n) == <<"u", <<"1", "2", "3", "4", "5", "6", "7", "8", "9">>[n]>>

\* ids a client writes of its own accord: one the pattern accepts, one with
\* a space and one with a further slash
ClientId == <<"k">>

SpacedId == <<"a", " ">>

NestedId == <<"k", "/", "k">>

\* what new Date().toISOString() returns in the n-th invocation, and a
\* timestamp a client writes
Clock(n) == <<"T", <<"1", "2", "3", "4", "5", "6", "7", "8", "9">>[n]>>

ClientTime == <<"T", "0">>

ObjectBodies ==
    {EmptyObject,
     [note |-> <<"x">>],
     [note |-> <<"y">>, tag |-> <<"p">>],
     [id |-> ClientId, note |-> <<"x">>],
     [id |-> SpacedId, createdAt |-> ClientTime],
     [id |-> ClientId, createdAt |-> ClientTime]}

JsonValues ==
    {JNull, JNumber, JString(<<"a">>), JArray(<< <<"a">> >>)}
        \cup {JObject(o) : o \in ObjectBodies}

Texts == {EmptyText, Malformed} \cup {JsonText(v) : v \in JsonValues}

Payload(enc, text, flag) == [body |-> Wire(enc, text), isBase64Encoded |-> flag]

\* every text as written, two of them base64-encoded and flagged, and two
\* whose flag contradicts their encoding
Payloads ==
    {Payload("plain", x, FALSE) : x \in Texts}
        \cup {Payload("base64", x, TRUE) :
                x \in {JsonText(JNull), JsonText(JObject([note |-> <<"x">>]))}}
        \cup {Payload(enc, x, enc = "plain") :
                enc \in {"plain", "base64"},
                x \in {JsonText(JNumber), JsonText(JObject([note |-> <<"x">>]))}}

\* the payload sent along with a request whose route reads no body
Bodiless == {Payload("plain", EmptyText, FALSE)}

\* "" is an event without a method
Methods == {"", "GET", "POST", "PUT", "DELETE", "OPTIONS", "PATCH"}

\* <<>> is an event without a rawPath; a client names the ids it chose and
\* the ids the service has handed out
Paths(u) ==
    {Falsy, HealthPath, ItemsPath, ItemsPrefix}
        \cup {ItemsPrefix \o id : id \in {ClientId, SpacedId, NestedId}}
        \cup {ItemsPrefix \o Uuid(n) : n \in 1..u}

\* The payloads explored with a method and a path: every payload where the
\* handler reads the body (POST /items, PUT /items/<id>), one elsewhere.
PayloadsOf(m, p) ==
    IF \/ m = "POST" /\ p = ItemsPath
       \/ m = "PUT" /\ getIdFromPath(p) # Falsy
    THEN Payloads
    ELSE IF m = "PUT" /\ StartsWith(p, ItemsPrefix)
    THEN Bodiless \cup {Payload("plain", JsonText(JObject([note |-> <<"x">>])), FALSE)}
    ELSE Bodiless

Event(m, p, b) ==
    [method |-> m, rawPath |-> p, body |-> b.body, isBase64Encoded |-> b.isBase64Encoded]

---------------------------------------------------------------------------
(* The sequential specification: one invocation after another.             *)

NoEvent == [method |-> "", rawPath |-> Falsy,
            body |-> Wire("plain", EmptyText), isBase64Encoded |-> FALSE]

Init ==
    /\ table = {}
    /\ uuids = 0
    /\ requests = 0
    /\ event = NoEvent
    /\ now = Falsy
    /\ outcome = [kind |-> "none"]
    /\ calls = <<>>
    /\ before = {}
    /\ removed = {}
    /\ gone = {}
    /\ procs = <<>>

\* ids deleted with a 200 and not created since, after this run
Removed(run) ==
    IF run.outcome.kind # "returned" THEN removed
    ELSE IF run.route = "delete" /\ run.outcome.response.statusCode = 200
         THEN removed \cup {run.calls[1].command.Key}
    ELSE IF run.route = "create" /\ run.outcome.response.statusCode = 201
         THEN removed \ {run.calls[1].command.Item.id}
    ELSE removed

\* One invocation of the handler, taking the given route.
Invoke(route) ==
    /\ \E m \in Methods, p \in Paths(uuids) :
         /\ Route(MethodOf([method |-> m]), PathOf([rawPath |-> p])) = route
         /\ \E b \in PayloadsOf(m, p) :
              \E run \in Handler(Event(m, p, b), table, Uuid(uuids + 1), Clock(requests + 1)) :
                 /\ event' = Event(m, p, b)
                 /\ now' = Clock(requests + 1)
                 /\ outcome' = run.outcome
                 /\ calls' = run.calls
                 /\ table' = run.table
                 /\ before' = table
                 /\ uuids' = uuids + run.drawn
                 /\ removed' = Removed(run)
                 /\ gone' = removed
    /\ requests' = requests + 1
    /\ UNCHANGED procs

Health ==
    /\ requests < MaxRequests
    /\ Invoke("health")

Options ==
    /\ requests < MaxRequests
    /\ Invoke("options")

Create ==
    /\ requests < MaxRequests
    /\ Invoke("create")

List ==
    /\ requests < MaxRequests
    /\ Invoke("list")

ReadOne ==
    /\ requests < MaxRequests
    /\ Invoke("readOne")

Update ==
    /\ requests < MaxRequests
    /\ Invoke("update")

Delete ==
    /\ requests < MaxRequests
    /\ Invoke("delete")

Fallback ==
    /\ requests < MaxRequests
    /\ Invoke("fallback")

Next ==
    \/ Health
    \/ Options
    \/ Create
    \/ List
    \/ ReadOne
    \/ Update
    \/ Delete
    \/ Fallback

Spec == Init /\ [][Next]_vars

---------------------------------------------------------------------------
(* The concurrent specification: invocations against one id, each stopping *)
(* at its await while the others run.                                      *)

TargetId == Uuid(1)

\* the item an earlier POST /items with {"note":"x"} left in the table
TargetItem == NewItem(TargetId, Clock(1), JObject([note |-> <<"x">>]))

\* updates and deletes of the one id
ConcurrentEvents ==
    {Event("DELETE", ItemsPrefix \o TargetId, b) : b \in Bodiless}
        \cup {Event("PUT", ItemsPrefix \o TargetId, Payload("plain", x, FALSE)) :
                x \in {EmptyText, JsonText(JNull),
                       JsonText(JObject([note |-> <<"y">>, tag |-> <<"p">>])),
                       JsonText(JObject([id |-> ClientId, note |-> <<"x">>]))}}

Procs == 1..MaxProcs

InitConc ==
    /\ table \in {{TargetItem}, {}}
    /\ before = table
    /\ uuids = 1
    /\ requests = 1
    /\ event = NoEvent
    /\ now = Falsy
    /\ outcome = [kind |-> "none"]
    /\ calls = <<>>
    /\ removed = {}
    /\ gone = {}
    /\ procs = [p \in Procs |-> [pc |-> "idle"]]

\* Invocation p runs from its entry to its await, or to its end if it
\* reaches no await.
Arrive(p) ==
    /\ procs[p].pc = "idle"
    /\ \E ev \in ConcurrentEvents :
         LET pr == Prepare(ev, Uuid(uuids + 1), Clock(requests + 1))
         IN  procs' = [procs EXCEPT ![p] =
                 CASE pr.kind = "send" ->
                        [pc |-> "awaiting", event |-> ev, command |-> pr.command]
                   [] pr.kind = "respond" ->
                        [pc |-> "done", event |-> ev, sent |-> FALSE,
                         outcome |-> Returned(pr.response)]
                   [] pr.kind = "throw" ->
                        [pc |-> "done", event |-> ev, sent |-> FALSE,
                         outcome |-> Threw(pr.error)]]
    /\ UNCHANGED <<table, uuids, requests, event, now, outcome, calls, before, removed, gone>>

\* The store performs the command of invocation p, in one step.
StoreCall(p) ==
    /\ procs[p].pc = "awaiting"
    /\ \E r \in Send(table, procs[p].command) :
         /\ table' = r.table
         /\ procs' = [procs EXCEPT ![p] =
                 [pc |-> "replied", event |-> procs[p].event,
                  command |-> procs[p].command, reply |-> r.reply,
                  existed |-> Lookup(table, procs[p].command.Key) # {}]]
    /\ UNCHANGED <<uuids, requests, event, now, outcome, calls, before, removed, gone>>

\* Invocation p resumes with the reply and returns.
Return(p) ==
    /\ procs[p].pc = "replied"
    /\ procs' = [procs EXCEPT ![p] =
            [pc |-> "done", event |-> procs[p].event, sent |-> TRUE,
             command |-> procs[p].command, reply |-> procs[p].reply,
             existed |-> procs[p].existed,
             outcome |-> Returned(Conclude(procs[p].command, procs[p].reply))]]
    /\ UNCHANGED <<table, uuids, requests, event, now, outcome, calls, before, removed, gone>>

NextConc == \E p \in Procs : Arrive(p) \/ StoreCall(p) \/ Return(p)

SpecConc == InitConc /\ [][NextConc]_vars

---------------------------------------------------------------------------
(* What the properties read of the last invocation.                        *)

Invoked == requests > 0

Method == MethodOf(event)

Path == PathOf(event)

\* the text of the path after "/items/"
Segment == SubSeq(Path, Len(ItemsPrefix) + 1, Len(Path))

\* the segment is an id of the pattern ^/items/([A-Za-z0-9_.-]+)$
SegmentIsId == Len(Segment) >= 1 /\ \A i \in 1..Len(Segment) : Segment[i] \in IdChars

IsCreate == Method = "POST" /\ Path = ItemsPath

IsReadOne == Method = "GET" /\ StartsWith(Path, ItemsPrefix)

IsUpdate == Method = "PUT" /\ StartsWith(Path, ItemsPrefix)

IsDelete == Method = "DELETE" /\ StartsWith(Path, ItemsPrefix)

HasReturned == outcome.kind = "returned"

Status == outcome.response.statusCode

\* the JSON object of the response body
Data == outcome.response.body.value

Answered(status) == HasReturned /\ Status = status

AnsweredError(status, kind) ==
    /\ Answered(status)
    /\ "error" \in DOMAIN Data
    /\ Data.error = kind
    /\ "ok" \notin DOMAIN Data

\* the store call of the last invocation ended in an error of the store's own
StoreFailed == calls # <<>> /\ ~calls[1].reply.ok /\ calls[1].reply.err = Unavailable

\* the parsed body of the last request, when it is a JSON object
BodyIsObject == ParseBody(event).ok /\ ParseBody(event).value.t = "object"

BodyProps == ParseBody(event).value.props

---------------------------------------------------------------------------
(* C1: create stamps a server-generated id and a server-set createdAt.     *)

\* C1: after a POST /items answered 201, the item echoed is the item in the
\* table under its id, its id is the identifier randomUUID() returned to
\* this invocation, no item of the table had that id before, and its
\* createdAt is the clock reading of this invocation.
C1_CreateStampsServerIdentity ==
    (Invoked /\ IsCreate /\ Answered(201)) =>
        /\ Data.item \in table
        /\ Data.item.id = Uuid(uuids)
        /\ Lookup(before, Data.item.id) = {}
        /\ Data.item.createdAt = now

---------------------------------------------------------------------------
(* C2: every invocation ends in one response.                              *)

ResponseStatuses == {200, 201, 204, 400, 404, 500}

\* C2: every invocation of the handler returns a response whose status is
\* one of 200, 201, 204, 400, 404 and 500; none ends in an exception.
C2_AlwaysOneResponse ==
    Invoked => (HasReturned /\ Status \in ResponseStatuses)

---------------------------------------------------------------------------
(* C3: the CORS preflight.                                                 *)

PreflightAnswer ==
    /\ Answered(204)
    /\ outcome.response.body = JsonStringify(EmptyObject)
    /\ calls = <<>>
    /\ table = before

\* C3, as claimed: an OPTIONS request to any path, /health included, is
\* answered 204 with the empty document and no store call.
C3_OptionsAlwaysPreflight ==
    (Invoked /\ Method = "OPTIONS") => PreflightAnswer

\* C3, amended: an OPTIONS request to any path but /health is answered 204
\* with the empty JSON object as its body, sends no command to the store and
\* leaves the table as it was; an OPTIONS request to /health is answered by
\* the health route, 200 with ok, also without a store call.
C3_OptionsPreflightExceptHealth ==
    (Invoked /\ Method = "OPTIONS") =>
        IF Path = HealthPath
        THEN Answered(200) /\ Data.ok /\ calls = <<>> /\ table = before
        ELSE PreflightAnswer

\* an OPTIONS request to the path of an item that is in the table, answered 204
C3_Witness ==
    /\ Invoked /\ Method = "OPTIONS"
    /\ SegmentIsId /\ Lookup(table, Segment) # {}
    /\ PreflightAnswer

---------------------------------------------------------------------------
(* C4: what an update changes.                                             *)

\* the item the last request addresses, as the invocation found it and as
\* it left it
ItemBefore == The(Lookup(before, Segment))

ItemAfter == The(Lookup(table, Segment))

\* the keys of the body an update may set
UpdatableKeys == DOMAIN BodyProps \ ProtectedKeys

\* C4: a PUT /items/{id} with a JSON-object body, addressed to an item that
\* is in the table, is answered 400 (no updatable key), 500 (the store call
\* failed) or 200.  In every case the item is still there with its id, its
\* createdAt and every field the body does not name as they were, no field
\* is gone and every other item is as it was.  Answered 200, the item holds
\* exactly its old keys and the body's updatable keys, each of these with
\* the body's value, and the response carries that item; answered
\* otherwise, the item is unchanged.
C4_UpdateChangesOnlyBodyKeys ==
    (Invoked /\ IsUpdate /\ SegmentIsId /\ Lookup(before, Segment) # {} /\ BodyIsObject) =>
        /\ HasReturned
        /\ Status = (IF UpdatableKeys = {} THEN 400 ELSE IF StoreFailed THEN 500 ELSE 200)
        /\ before \ {ItemBefore} = table \ Lookup(table, Segment)
        /\ Lookup(table, Segment) # {}
        /\ ItemAfter.id = ItemBefore.id
        /\ ItemAfter.createdAt = ItemBefore.createdAt
        /\ DOMAIN ItemBefore \subseteq DOMAIN ItemAfter
        /\ \A k \in DOMAIN ItemBefore \ UpdatableKeys : ItemAfter[k] = ItemBefore[k]
        /\ IF Status = 200
           THEN /\ DOMAIN ItemAfter = DOMAIN ItemBefore \cup UpdatableKeys
                /\ \A k \in UpdatableKeys : ItemAfter[k] = BodyProps[k]
                /\ Data.ok /\ Data.item = ItemAfter
           ELSE ItemAfter = ItemBefore

\* an update answered 200 whose body names id, that changed one field, kept
\* another the body does not name, and left a second item alone
C4_Witness ==
    /\ Invoked /\ IsUpdate /\ SegmentIsId /\ Lookup(before, Segment) # {} /\ BodyIsObject
    /\ Answered(200)
    /\ "id" \in DOMAIN BodyProps /\ BodyProps.id # ItemBefore.id
    /\ \E k \in UpdatableKeys : k \in DOMAIN ItemBefore /\ ItemAfter[k] # ItemBefore[k]
    /\ \E k \in DOMAIN ItemBefore \ (UpdatableKeys \cup ProtectedKeys) : TRUE
    /\ Cardinality(table) = 2

---------------------------------------------------------------------------
(* C5: update and delete of an id that is not in the table.                *)

AddressesMissingId ==
    /\ Invoked /\ (IsUpdate \/ IsDelete)
    /\ SegmentIsId /\ Lookup(before, Segment) = {}

\* C5, as claimed: an update or a delete addressed to a valid id that is
\* not in the table is answered 404 NotFound and leaves the table as it was
\* (read here of the invocations that return, and whose store call did not
\* fail for a reason of the store's own).
C5_MissingIdAnswered404 ==
    (AddressesMissingId /\ HasReturned /\ ~StoreFailed) =>
        (AnsweredError(404, "NotFound") /\ table = before)

\* C5, amended: an update or a delete addressed to a valid id that is not in
\* the table leaves the table as it was and is never answered 200: no item
\* is created and no delete is reported as done.  A delete always sends its
\* command; whenever the command is sent the answer is 404 NotFound, or 500
\* if the store call fails; an update that sends no command was refused for
\* its body, answered 400 or ended by the exception of a null body.
C5_MissingIdNeverSucceeds ==
    AddressesMissingId =>
        /\ table = before
        /\ HasReturned => Status \in {400, 404, 500}
        /\ (calls # <<>>) =>
              (IF StoreFailed THEN Answered(500) ELSE AnsweredError(404, "NotFound"))
        /\ (calls = <<>>) =>
              (IsUpdate /\ (~HasReturned \/ AnsweredError(400, "BadRequest")))

\* an update with an updatable field, addressed to an id that is not in a
\* table holding another item, answered 404
C5_Witness ==
    /\ AddressesMissingId /\ IsUpdate
    /\ before # {}
    /\ calls # <<>>
    /\ AnsweredError(404, "NotFound")

---------------------------------------------------------------------------
(* C6: delete, and what follows it.                                        *)

DeletesPresentItem ==
    /\ Invoked /\ IsDelete
    /\ SegmentIsId /\ Lookup(before, Segment) # {}

\* a read-one, update or delete of an id that was deleted with a 200, with
\* no create of that id since
AddressesRemovedId ==
    /\ Invoked /\ (IsReadOne \/ IsUpdate \/ IsDelete)
    /\ SegmentIsId /\ Segment \in gone

\* C6, as claimed: a delete of an item that is in the table is answered 200
\* with the item as it was and removes that item and no other; every later
\* read-one, update or delete of that id, with no create between, is
\* answered 404 (read here of the invocations that return, and whose store
\* call did not fail for a reason of the store's own).
C6_DeletedThenAlways404 ==
    /\ (DeletesPresentItem /\ HasReturned /\ ~StoreFailed) =>
          /\ Answered(200) /\ Data.deleted = ItemBefore
          /\ table = before \ {ItemBefore}
    /\ (AddressesRemovedId /\ HasReturned /\ ~StoreFailed) => Answered(404)

\* C6, amended: a delete of an item that is in the table sends its command
\* and is answered 200 with the item as it was, removing that item and no
\* other, or 500 if the store call fails, removing nothing.  Every later
\* read-one, update or delete of that id, with no create between, leaves
\* the table as it was and is never answered 200: read-one and delete send
\* their command, the answer to a command sent is 404 NotFound, or 500 if
\* the store call fails, and an update that sends no command was refused for
\* its body, answered 400 or ended by the exception of a null body.
C6_DeletedStaysGone ==
    /\ DeletesPresentItem =>
          /\ Len(calls) = 1
          /\ calls[1].command.op = "Delete" /\ calls[1].command.Key = Segment
          /\ HasReturned /\ Status = (IF StoreFailed THEN 500 ELSE 200)
          /\ IF Status = 200
             THEN /\ Data.ok /\ Data.deleted = ItemBefore
                  /\ table = before \ {ItemBefore}
             ELSE table = before
    /\ AddressesRemovedId =>
          /\ Lookup(before, Segment) = {}
          /\ table = before
          /\ HasReturned => Status \in {400, 404, 500}
          /\ (calls # <<>>) =>
                (IF StoreFailed THEN Answered(500) ELSE AnsweredError(404, "NotFound"))
          /\ (calls = <<>>) =>
                (IsUpdate /\ (~HasReturned \/ AnsweredError(400, "BadRequest")))

\* a read-one of an id that an earlier delete removed, answered 404
C6_Witness ==
    /\ AddressesRemovedId /\ IsReadOne
    /\ AnsweredError(404, "NotFound")

---------------------------------------------------------------------------
(* C7: create, then read.                                                  *)

\* C7: a POST /items answered 201 carries an item with every key and value
\* of the body, and the GET /items/{id} that comes next, with the id of that
\* item, is answered 200 with an item equal to it (unless the store call of
\* the read fails for a reason of the store's own).
C7_CreateThenReadRoundTrip ==
    [][ (/\ Invoked /\ IsCreate /\ Answered(201)
         /\ MethodOf(event') = "GET"
         /\ PathOf(event') = ItemsPrefix \o Data.item.id)
        =>
        (/\ \A k \in DOMAIN OwnProps(ParseBody(event).value) :
                 Data.item[k] = OwnProps(ParseBody(event).value)[k]
         /\ outcome'.kind = "returned"
         /\ ~StoreFailed' =>
               /\ outcome'.response.statusCode = 200
               /\ outcome'.response.body.value.item = Data.item) ]_vars

---------------------------------------------------------------------------
(* C8: bodies refused before the store is called.                          *)

\* the body, decoded if flagged, is a non-empty text that is not JSON
BodyIsNotJson == BodyText(event).syntax = "malformed"

\* the body, decoded if flagged, is empty, or is a JSON object that names no
\* key but id and createdAt
BodyHasNoUpdatableKey ==
    \/ BodyText(event).syntax = "empty"
    \/ /\ BodyText(event).syntax = "json"
       /\ BodyText(event).value.t = "object"
       /\ DOMAIN BodyText(event).value.props \subseteq ProtectedKeys

---------------------------------------------------------------------------
(* C9: the id of the path.                                                 *)

\* C9: a GET, PUT or DELETE of a path under /items/ whose segment is empty
\* or holds a character outside [A-Za-z0-9_.-] is answered 400 and sends no
\* command; every Get, Update and Delete command sent carries as its key
\* the whole segment of the path, which then is an id of the pattern.
C9_InvalidIdRefused ==
    (Invoked /\ (IsReadOne \/ IsUpdate \/ IsDelete)) =>
        /\ ~SegmentIsId =>
              (AnsweredError(400, "BadRequest") /\ calls = <<>> /\ table = before)
        /\ \A i \in 1..Len(calls) :
              SegmentIsId /\ calls[i].command.Key = Segment

\* a read-one of /items/k/k while an item with id k is in the table,
\* answered 400
C9_Witness ==
    /\ Invoked /\ IsReadOne
    /\ Segment = NestedId
    /\ Lookup(table, ClientId) # {}
    /\ AnsweredError(400, "BadRequest")

---------------------------------------------------------------------------
(* C10: concurrent updates and deletes of one id.                          *)

Done(p) == procs[p].pc = "done"

Got(p, status) ==
    /\ Done(p)
    /\ procs[p].outcome.kind = "returned"
    /\ procs[p].outcome.response.statusCode = status

\* the invocations whose store call has been performed
Called == {p \in Procs : procs[p].pc \in {"replied", "done"} /\ "reply" \in DOMAIN procs[p]}

Deletes == {p \in Called : procs[p].command.op = "Delete"}

\* the store performed the command of p and did not fail
Performed(p) == p \in Called /\ (procs[p].reply.ok \/ procs[p].reply.err = ConditionFailed)

\* C10: in every interleaving of updates and deletes of one id, each with
\* one atomic store call: an update or a delete answered 200 found the item
\* in the table at its store call; once a delete has been performed on the
\* item no update brings it back; at most one delete is answered 200; and
\* when every invocation has returned, the item was there at the start and
\* the store performed every delete sent, exactly one delete is answered
\* 200 and every other one 404.
C10_ConditionalWritesSerialize ==
    /\ \A p \in Procs : Got(p, 200) => (p \in Called /\ procs[p].existed)
    /\ (\E p \in Deletes : procs[p].reply.ok) => Lookup(table, TargetId) = {}
    /\ Cardinality({p \in Deletes : Got(p, 200)}) <= 1
    /\ (/\ \A p \in Procs : Done(p)
        /\ Lookup(before, TargetId) # {}
        /\ Deletes # {}
        /\ \A p \in Deletes : Performed(p))
       => /\ Cardinality({p \in Deletes : Got(p, 200)}) = 1
          /\ \A p \in Deletes : Got(p, 200) \/ Got(p, 404)

\* two deletes and an update of an item that was there have all returned:
\* one delete answered 200, the other 404, and the update, whose store call
\* came after the delete's, answered 404
C10_Witness ==
    /\ \A p \in Procs : Done(p)
    /\ Lookup(before, TargetId) # {}
    /\ Cardinality(Deletes) >= 2
    /\ \A p \in Deletes : Performed(p)
    /\ \E p \in Deletes : Got(p, 200)
    /\ \E p \in Deletes : Got(p, 404)
    /\ \E p \in Called : procs[p].command.op = "Update" /\ ~procs[p].existed /\ Got(p, 404)

=============================================================================
